---------------------------- MODULE Spec2Model ----------------------------
(***************************************************************************)
(* A model of auto-sendmail: load_config (app/config.py), main             *)
(* (app/main.py), create_scheduler / send_email_task (app/scheduler.py),   *)
(* AIGenerator.generate (app/ai_generator.py), EmailSender.send            *)
(* (app/email_sender.py) and TelegramNotifier (app/telegram_notifier.py).  *)
(*                                                                         *)
(* Text is a sequence of characters, each a TLA+ string.  Some characters  *)
(* stand for longer pieces of text: "F" is a three-backtick markdown       *)
(* fence, "J" is a complete JSON document (its parsed value is carried     *)
(* beside the text), "*" is a valid cron field and "x" an invalid one.     *)
(***************************************************************************)
EXTENDS Integers, Sequences, FiniteSets, TLC

(***************************************************************************)
(* Bounds of the model.                                                    *)
(***************************************************************************)
MaxAccounts == 2
MaxRespLen == 4
PoolSize == 2
MaxRuns == 2

(***************************************************************************)
(* Python string operations, on sequences of characters.                   *)
(***************************************************************************)
Whitespace == {" ", "\n"}

\* the three backticks of a markdown code fence
Fence == "F"

RECURSIVE LStrip(_)
LStrip(s) ==
    IF s # <<>> /\ Head(s) \in Whitespace THEN LStrip(Tail(s)) ELSE s

RECURSIVE RStrip(_)
RStrip(s) ==
    IF s # <<>> /\ s[Len(s)] \in Whitespace
    THEN RStrip(SubSeq(s, 1, Len(s) - 1))
    ELSE s

\* str.strip()
Strip(s) == RStrip(LStrip(s))

\* str.startswith(<three backticks>)
StartsWithFence(s) == s # <<>> /\ Head(s) = Fence

\* str.split("\n"): one more piece than there are separators
RECURSIVE SplitLines(_)
SplitLines(s) ==
    IF \A i \in 1..Len(s) : s[i] # "\n"
    THEN <<s>>
    ELSE LET i == CHOOSE k \in 1..Len(s) :
                      s[k] = "\n" /\ \A j \in 1..(k - 1) : s[j] # "\n"
         IN  <<SubSeq(s, 1, i - 1)>> \o SplitLines(SubSeq(s, i + 1, Len(s)))

\* "\n".join(lines)
RECURSIVE JoinLines(_)
JoinLines(lines) ==
    IF lines = <<>> THEN <<>>
    ELSE IF Len(lines) = 1 THEN lines[1]
    ELSE lines[1] \o <<"\n">> \o JoinLines(Tail(lines))

\* str.split(): the maximal runs of non-whitespace characters
RECURSIVE SplitFields(_)
SplitFields(s) ==
    LET t == LStrip(s) IN
    IF t = <<>> THEN <<>>
    ELSE LET n == IF \E k \in 1..Len(t) : t[k] \in Whitespace
                  THEN (CHOOSE k \in 1..Len(t) :
                            t[k] \in Whitespace
                            /\ \A j \in 1..(k - 1) : t[j] \notin Whitespace) - 1
                  ELSE Len(t)
         IN  <<SubSeq(t, 1, n)>> \o SplitFields(SubSeq(t, n + 1, Len(t)))

\* All texts of at most n characters over an alphabet
TextsUpTo(alphabet, n) == UNION {[1..k -> alphabet] : k \in 0..n}

(***************************************************************************)
(* Exceptions: a type and the text str(e) gives.                           *)
(***************************************************************************)
NoExc == [type |-> "", msg |-> ""]

Exc(t, m) == [type |-> t, msg |-> m]

\* str(e)
StrOfExc(e) == e.msg

(***************************************************************************)
(* AIGenerator.generate (app/ai_generator.py)                              *)
(***************************************************************************)
\* The JSON documents the character "J" may stand for, by name.
JsonDocs == {"obj_subject_body", "obj_body", "obj_subject",
             "obj_subject_emptybody", "string"}

\* isinstance(parsed, dict): only a dict has .get
JsonIsObject(doc) == doc # "string"

\* parsed.get("subject", <the fixed fallback label of lines 78 and 94>)
DefaultSubject == <<"<daily greeting>">>

JsonSubject(doc) ==
    IF doc \in {"obj_subject_body", "obj_subject", "obj_subject_emptybody"}
    THEN <<"S">> ELSE DefaultSubject

\* parsed.get("body", "")
JsonBody(doc) ==
    IF doc \in {"obj_subject_body", "obj_body"} THEN <<"B">> ELSE <<>>

\* json.loads(text) succeeds iff the text is one JSON document, which JSON
\* whitespace may surround.
JsonParses(text) == Strip(text) = <<"J">>

\* What the chat-completion call can do: raise a transport error, answer
\* with no content (None), or answer with a text.
ApiErrors == {Exc("APIConnectionError", "Connection error."),
              Exc("RateLimitError", "Error code: 429")}

ApiRaise(e) == [kind |-> "raise", exc |-> e, text |-> <<>>, doc |-> "string"]

ApiNone == [kind |-> "none", exc |-> NoExc, text |-> <<>>, doc |-> "string"]

ApiText(t, d) == [kind |-> "text", exc |-> NoExc, text |-> t, doc |-> d]

\* The answers over an alphabet: the document "J" stands for matters only
\* in a text that holds one.
ApiOutcomes(texts, docs) ==
    {ApiRaise(e) : e \in ApiErrors} \cup {ApiNone}
    \cup {ApiText(t, "string") : t \in texts}
    \cup {ApiText(t, d) :
            t \in {u \in texts : \E i \in 1..Len(u) : u[i] = "J"},
            d \in docs \ {"string"}}

NoContent == [subject |-> <<>>, body |-> <<>>]

GenReturn(subject, body, viaFallback) ==
    [kind |-> "return", content |-> [subject |-> subject, body |-> body],
     exc |-> NoExc, jsonFailed |-> viaFallback]

GenRaise(e) ==
    [kind |-> "raise", content |-> NoContent, exc |-> e, jsonFailed |-> FALSE]

\* An exception raised in the try block before "import json" has run:
\* "except json.JSONDecodeError" reads the local name json, which is not
\* bound yet, so matching the handler itself raises UnboundLocalError and
\* that exception leaves generate (lines 55-70 and 92).
UnboundJson ==
    Exc("UnboundLocalError",
        "cannot access local variable 'json' where it is not associated with a value")

RaisedBeforeImport(e) == GenRaise(UnboundJson)

\* lines 73-77: drop the markdown fence lines
CleanFence(raw) ==
    IF StartsWithFence(raw)
    THEN JoinLines(SelectSeq(SplitLines(raw),
                             LAMBDA l : ~StartsWithFence(Strip(l))))
    ELSE raw

\* A plausible slip: no fallback, the decode error leaves generate
OnJsonDecodeErrorRaises(subject_prefix, raw_content) ==
    GenRaise(Exc("JSONDecodeError", "Expecting value"))

\* lines 92-98: the fallback on json.JSONDecodeError
OnJsonDecodeError(subject_prefix, raw_content) ==
    GenReturn(IF subject_prefix # <<>>
              THEN subject_prefix \o DefaultSubject ELSE DefaultSubject,
              raw_content, TRUE)

\* lines 79-90: the parsed document
OnParsed(subject_prefix, doc) ==
    IF ~JsonIsObject(doc)
    THEN GenRaise(Exc("AttributeError", "'str' object has no attribute 'get'"))
    ELSE LET subject == IF subject_prefix # <<>>
                        THEN subject_prefix \o JsonSubject(doc)
                        ELSE JsonSubject(doc)
             body == JsonBody(doc)
         IN  IF body = <<>>
             THEN GenRaise(Exc("ValueError", "AI returned an empty email body"))
             ELSE GenReturn(subject, body, FALSE)

\* generate(ai_prompt, subject_prefix), given what the API call did
GenerateResult(api, subject_prefix) ==
    IF api.kind = "raise" THEN RaisedBeforeImport(api.exc)
    ELSE IF api.kind = "none"
    THEN RaisedBeforeImport(Exc("AttributeError",
                                "'NoneType' object has no attribute 'strip'"))
    ELSE LET raw_content == CleanFence(Strip(api.text)) IN
         IF JsonParses(raw_content)
         THEN OnParsed(subject_prefix, api.doc)
         ELSE OnJsonDecodeError(subject_prefix, raw_content)

(***************************************************************************)
(* Configuration (app/config.py)                                           *)
(***************************************************************************)
\* A key the JSON object does not hold
Absent == <<"<absent>">>

\* dict.get(key, default)
Get(acc, key, default) == IF acc[key] = Absent THEN default ELSE acc[key]

\* str(i) for an index of ACCOUNTS
Digit(i) == <<"0", "1", "2", "3", "4", "5", "6", "7", "8", "9">>[i + 1]

\* _generate_name: (first.lower(), first + " " + last) for a random first
\* and last name; two of the first names stand for the list.
GeneratedNames == {[first |-> "james", full |-> "James Smith"],
                   [first |-> "mary", full |-> "Mary Smith"]}

\* _generate_email(domain)
GenerateEmail(domain, gen) ==
    [email |-> <<gen.first, "@">> \o domain, name |-> <<gen.full>>]

\* A plausible slip: to_email left out of the required fields
RequiredFieldsWithoutToEmail == <<"name", "from_email", "cron", "ai_prompt">>

\* AccountConfig.__post_init__, line 67
RequiredFields == <<"name", "from_email", "to_email", "cron", "ai_prompt">>

ConfigOk(v) == [ok |-> TRUE, value |-> v, error |-> <<>>]

ConfigError(text) == [ok |-> FALSE, value |-> <<>>, error |-> text]

\* AccountConfig.__post_init__: the first required field that is empty
\* after strip() is reported; then the cron must split into 5 fields.
AccountPostInit(a) ==
    LET missing == {k \in 1..Len(RequiredFields) :
                        Strip(a[RequiredFields[k]]) = <<>>}
    IN  IF missing # {}
        THEN LET k == CHOOSE m \in missing : \A o \in missing : m <= o
             IN  ConfigError(<<"missing required field: ", RequiredFields[k]>>)
        ELSE IF Len(SplitFields(Strip(a.cron))) # 5
        THEN ConfigError(<<"cron needs 5 fields, has ",
                           Digit(Len(SplitFields(Strip(a.cron))))>>)
        ELSE ConfigOk(a)

\* load_config, lines 129-159: one entry of ACCOUNTS
MakeAccount(acc, i, e, gen) ==
    IF ~acc.isDict
    THEN ConfigError(<<"ACCOUNTS[", Digit(i), "] must be a JSON object">>)
    ELSE
    LET from_email0 == Get(acc, "from_email", <<>>)
        from_name0 == Get(acc, "from_name", <<>>)
        auto == from_email0 = <<>> /\ e.domain # <<>>
        generated == GenerateEmail(e.domain, gen)
        from_email == IF auto THEN generated.email ELSE from_email0
        from_name ==
            IF auto
            THEN IF from_name0 = <<>>
                 THEN IF e.defaultFromName = <<>>
                      THEN generated.name ELSE e.defaultFromName
                 ELSE from_name0
            ELSE IF from_name0 = <<>> THEN e.defaultFromName ELSE from_name0
        prompt0 == Get(acc, "ai_prompt", <<>>)
        ai_prompt == IF prompt0 # <<>> THEN prompt0 ELSE e.defaultPrompt
        a == [name |-> Get(acc, "name", <<"account_", Digit(i)>>),
              from_email |-> from_email,
              from_name |-> from_name,
              to_email |-> Get(acc, "to_email", <<>>),
              cron |-> Get(acc, "cron", <<>>),
              ai_prompt |-> ai_prompt,
              subject_prefix |-> Get(acc, "subject_prefix", <<>>)]
        r == AccountPostInit(a)
    IN  IF r.ok THEN r
        ELSE ConfigError(<<"ACCOUNTS[", Digit(i), "] config error: ">> \o r.error)

\* AppConfig.__post_init__
AppConfigPostInit(e, accts) ==
    IF e.resendKey = <<>> THEN ConfigError(<<"missing RESEND_API_KEY">>)
    ELSE IF e.aiKey = <<>> THEN ConfigError(<<"missing AI_API_KEY">>)
    ELSE IF accts = <<>> THEN ConfigError(<<"at least one account is needed (ACCOUNTS)">>)
    ELSE ConfigOk(accts)

\* A cron expression of the given fields
RECURSIVE CronText(_)
CronText(fields) ==
    IF fields = <<>> THEN <<>>
    ELSE IF Len(fields) = 1 THEN <<fields[1]>>
    ELSE <<fields[1], " ">> \o CronText(Tail(fields))

Cron5 == CronText(<<"*", "*", "*", "*", "*">>)

Cron4 == CronText(<<"*", "*", "*", "*">>)

Cron5Invalid == CronText(<<"*", "x", "*", "*", "*">>)

\* The entries of ACCOUNTS with the given values of each key
RawEntries(names, fromEmails, fromNames, toEmails, crons, prompts, prefixes) ==
    [isDict : {TRUE}, name : names, from_email : fromEmails,
     from_name : fromNames, to_email : toEmails, cron : crons,
     ai_prompt : prompts, subject_prefix : prefixes]

NotADict ==
    [isDict |-> FALSE, name |-> Absent, from_email |-> Absent,
     from_name |-> Absent, to_email |-> Absent, cron |-> Absent,
     ai_prompt |-> Absent, subject_prefix |-> Absent]

\* Entries that vary every required key: absent, empty or blank, present
RichEntries ==
    RawEntries({Absent, <<>>, <<"a">>},
               {Absent, <<" ">>, <<"f@x">>},
               {Absent},
               {Absent, <<" ">>, <<"t@y">>},
               {Absent, Cron4, Cron5, Cron5Invalid},
               {Absent, <<" ">>, <<"p">>},
               {Absent})
    \cup {NotADict}

\* Entries that vary only the name and the cron expression
CompactEntries ==
    RawEntries({<<"a">>, <<"b">>}, {<<"f@x">>}, {<<"N">>}, {<<"t@y">>},
               {Cron4, Cron5, Cron5Invalid}, {<<"p">>}, {Absent})

(***************************************************************************)
(* Scheduling (app/scheduler.py)                                           *)
(***************************************************************************)
\* CronTrigger(minute=..., ...): a field that is no cron expression raises
CronFieldValid(f) == f = <<"*">>

\* parse_cron
ParseCron(cron_expr) ==
    LET parts == SplitFields(Strip(cron_expr)) IN
    IF Len(parts) # 5
    THEN ConfigError(<<"cron expression needs 5 fields">>)
    ELSE IF \E k \in 1..5 : ~CronFieldValid(parts[k])
    THEN ConfigError(<<"unrecognized cron expression">>)
    ELSE ConfigOk(parts)

\* id=f"sendmail_{account.name}"
JobId(a) == <<"sendmail_">> \o a.name

\* add_job passes no max_instances: the scheduler's default, one running
\* instance per job
MaxInstances == 1

(***************************************************************************)
(* EmailSender.send (app/email_sender.py)                                  *)
(***************************************************************************)
\* f"{from_name} <{from_email}>" if from_name else from_email
SenderHeader(from_name, from_email) ==
    IF from_name # <<>>
    THEN from_name \o <<" <">> \o from_email \o <<">">>
    ELSE from_email

\* body.replace("\n", "<br>\n")
RECURSIVE HtmlBody(_)
HtmlBody(body) ==
    IF body = <<>> THEN <<>>
    ELSE (IF Head(body) = "\n" THEN <<"<br>", "\n">> ELSE <<Head(body)>>)
         \o HtmlBody(Tail(body))

NoMail == [from |-> <<>>, to |-> <<>>, subject |-> <<>>, body |-> <<>>,
           html |-> <<>>]

\* the parameters handed to resend.Emails.send
MailParams(a, content) ==
    [from |-> SenderHeader(a.from_name, a.from_email), to |-> a.to_email,
     subject |-> content.subject, body |-> content.body,
     html |-> HtmlBody(content.body)]

ResendError == Exc("ResendError", "email API failure")

(***************************************************************************)
(* TelegramNotifier (app/telegram_notifier.py)                             *)
(***************************************************************************)
\* self.enabled = bool(bot_token and chat_id)
NotifierEnabled(e) == e.tgToken # <<>> /\ e.tgChat # <<>>

\* A plausible slip: raise_for_status() outside the try block
NotifierSendPropagates(enabled, postOk) ==
    [posts |-> IF enabled THEN 1 ELSE 0,
     failed |-> enabled /\ ~postOk,
     raised |-> enabled /\ ~postOk]

\* TelegramNotifier.send: no request when disabled; a failed request is
\* logged and swallowed.
NotifierSend(enabled, postOk) ==
    [posts |-> IF enabled THEN 1 ELSE 0,
     failed |-> enabled /\ ~postOk,
     raised |-> FALSE]

(***************************************************************************)
(* send_email_task (app/scheduler.py): where a firing goes next            *)
(***************************************************************************)
\* A plausible slip: the failure of generate is logged and the task goes on
AfterGenerateGoesOn(gen) == "send"

\* lines 34-39 and 59: generate raised, or returned the content
AfterGenerate(gen) == IF gen.kind = "return" THEN "send" ELSE "notify_failure"

\* A plausible slip: the failure of send is logged and the task goes on
AfterSendGoesOn(sendOk) == "notify_success"

\* lines 42-53 and 59: send raised, or returned
AfterSend(sendOk) == IF sendOk THEN "notify_success" ELSE "notify_failure"

\* lines 53-59: notify_success is called inside the try block
AfterNotifySuccess(raised) == IF raised THEN "notify_failure" ELSE "returned"

\* lines 63-69: notify_failure is called inside the except block
AfterNotifyFailure(raised) == IF raised THEN "raised" ELSE "returned"

(***************************************************************************)
(* State                                                                   *)
(***************************************************************************)
VARIABLES
    env,           \* the environment variables load_config reads
    mpc,           \* where main() is
    exitCode,      \* the process's exit status, -1 while it runs
    startupError,  \* the text of the exception main() logged
    loadIdx,       \* load_config: entries of ACCOUNTS read so far
    lastRaw,       \* load_config: the entry read last
    accounts,      \* load_config: accounts / config.accounts
    regIdx,        \* create_scheduler: accounts handled so far
    pendingJobs,   \* the scheduler's jobs added before start()
    jobstore,      \* the scheduler's jobs once it runs
    instances,     \* the executor's running instances per job id
    workers,       \* the executor's threads, each idle or in send_email_task
    runs,          \* firings finished per account (capped at MaxRuns)
    skipped        \* job ids with a due run skipped for max instances

vars == <<env, mpc, exitCode, startupError, loadIdx, lastRaw, accounts,
          regIdx, pendingJobs, jobstore, instances, workers, runs, skipped>>

startupVars == <<env, mpc, exitCode, startupError, loadIdx, lastRaw,
                 accounts, regIdx, pendingJobs, jobstore>>

\* What a firing saw of the API call: no call yet
NoApi == [kind |-> "", exc |-> NoExc, text |-> <<>>]

\* What a firing saw of the API call: how it ended, with which error or text
ApiSeen(api) == [kind |-> api.kind, exc |-> api.exc, text |-> api.text]

NoGen == [kind |-> "", content |-> NoContent, exc |-> NoExc,
          jsonFailed |-> FALSE]

\* A thread of the pool that runs nothing
IdleWorker ==
    [pc |-> "idle", acct |-> 0, genCalls |-> 0, api |-> NoApi, gen |-> NoGen,
     sendCalls |-> 0, mail |-> NoMail, sendOutcome |-> "",
     exc |-> NoExc, nsCalls |-> 0, nsSubject |-> <<>>,
     nfCalls |-> 0, nfError |-> "",
     posts |-> 0, postFailed |-> FALSE]

Environments(kinds, ns, domains, fromNames, prompts, rkeys, akeys, toks, chats) ==
    {e \in [accountsJson : kinds, n : ns, domain : domains,
            defaultFromName : fromNames, defaultPrompt : prompts,
            resendKey : rkeys, aiKey : akeys, tgToken : toks, tgChat : chats] :
        e.accountsJson # "list" => e.n = 0}

JsonKinds == {"malformed", "notlist", "list"}

StartOfMain(e) ==
    /\ env = e
    /\ mpc = "load_config"
    /\ exitCode = -1
    /\ startupError = <<>>
    /\ loadIdx = 0
    /\ lastRaw = NotADict
    /\ accounts = <<>>
    /\ regIdx = 0
    /\ pendingJobs = <<>>
    /\ jobstore = <<>>
    /\ instances = [i \in {} |-> 0]
    /\ workers = [w \in 1..PoolSize |-> IdleWorker]
    /\ runs = [a \in 1..MaxAccounts |-> 0]
    /\ skipped = {}

\* The process starts with some environment
Init ==
    \E e \in Environments(JsonKinds, 0..MaxAccounts, {<<>>}, {<<>>}, {<<>>},
                          {<<>>, <<"k">>}, {<<>>, <<"k">>},
                          {<<>>, <<"t">>}, {<<"c">>}) :
        StartOfMain(e)

(***************************************************************************)
(* main (app/main.py) and load_config (app/config.py)                      *)
(***************************************************************************)
\* main, lines 49-51: except Exception -> log, sys.exit(1)
ExitOnError(text) ==
    /\ mpc' = "exited"
    /\ exitCode' = 1
    /\ startupError' = text

\* load_config, lines 105-126: read the environment, parse ACCOUNTS
LoadBegin ==
    /\ mpc = "load_config"
    /\ IF env.accountsJson = "malformed"
       THEN ExitOnError(<<"ACCOUNTS is not valid JSON">>)
       ELSE IF env.accountsJson = "notlist"
       THEN ExitOnError(<<"ACCOUNTS must be a JSON array">>)
       ELSE /\ mpc' = "load_entries"
            /\ UNCHANGED <<exitCode, startupError>>
    /\ UNCHANGED <<env, loadIdx, lastRaw, accounts, regIdx, pendingJobs,
                   jobstore, instances, workers, runs, skipped>>

\* load_config, lines 129-159: one turn of the loop over ACCOUNTS
LoadEntry(entries) ==
    /\ mpc = "load_entries"
    /\ loadIdx < env.n
    /\ \E acc \in entries, gen \in GeneratedNames :
         LET r == MakeAccount(acc, loadIdx, env, gen) IN
         /\ lastRaw' = acc
         /\ loadIdx' = loadIdx + 1
         /\ IF r.ok
            THEN /\ accounts' = Append(accounts, r.value)
                 /\ UNCHANGED <<mpc, exitCode, startupError>>
            ELSE /\ accounts' = <<>>
                 /\ ExitOnError(r.error)
    /\ UNCHANGED <<env, regIdx, pendingJobs, jobstore, instances, workers,
                   runs, skipped>>

\* load_config, lines 161-176: AppConfig(...) and return
LoadFinish ==
    /\ mpc = "load_entries"
    /\ loadIdx = env.n
    /\ LET r == AppConfigPostInit(env, accounts) IN
       IF r.ok
       THEN /\ mpc' = "create_scheduler"
            /\ UNCHANGED <<exitCode, startupError, accounts>>
       ELSE /\ accounts' = <<>>
            /\ ExitOnError(r.error)
    /\ UNCHANGED <<env, loadIdx, lastRaw, regIdx, pendingJobs, jobstore,
                   instances, workers, runs, skipped>>

(***************************************************************************)
(* create_scheduler and the scheduler (app/scheduler.py)                   *)
(***************************************************************************)
\* A plausible slip: the except block logs and goes on to the next account
RegisterOutcomeSkips(a) ==
    IF ParseCron(a.cron).ok THEN "add_job" ELSE "skip"

\* lines 120-136: a cron expression parse_cron rejects is logged and raised
RegisterOutcome(a) ==
    IF ParseCron(a.cron).ok THEN "add_job" ELSE "raise"

\* create_scheduler, lines 119-136: one turn of the loop over the accounts
RegisterJob ==
    /\ mpc = "create_scheduler"
    /\ regIdx < Len(accounts)
    /\ LET a == accounts[regIdx + 1]
           o == RegisterOutcome(a)
       IN  /\ regIdx' = regIdx + 1
           /\ IF o = "add_job"
              THEN /\ pendingJobs' = Append(pendingJobs,
                                            [id |-> JobId(a), acct |-> regIdx + 1])
                   /\ UNCHANGED <<mpc, exitCode, startupError>>
              ELSE IF o = "raise"
              THEN /\ ExitOnError(ParseCron(a.cron).error)
                   /\ UNCHANGED pendingJobs
              ELSE UNCHANGED <<mpc, exitCode, startupError, pendingJobs>>
    /\ UNCHANGED <<env, loadIdx, lastRaw, accounts, jobstore, instances,
                   workers, runs, skipped>>

\* create_scheduler, line 138, and main, lines 38-43: the scheduler is built
CreateReturn ==
    /\ mpc = "create_scheduler"
    /\ regIdx = Len(accounts)
    /\ mpc' = "start"
    /\ UNCHANGED <<env, exitCode, startupError, loadIdx, lastRaw, accounts,
                   regIdx, pendingJobs, jobstore, instances, workers, runs,
                   skipped>>

\* The job store after the pending jobs are added in order; a job whose id
\* the store already holds raises ConflictingIdError.
RECURSIVE RealAddJobs(_, _)
RealAddJobs(store, pending) ==
    IF pending = <<>> THEN ConfigOk(store)
    ELSE IF \E k \in 1..Len(store) : store[k].id = Head(pending).id
    THEN ConfigError(<<"Job identifier conflicts with an existing job: ">>
                     \o Head(pending).id)
    ELSE RealAddJobs(Append(store, Head(pending)), Tail(pending))

\* main, line 45: scheduler.start()
SchedulerStart ==
    /\ mpc = "start"
    /\ LET r == RealAddJobs(<<>>, pendingJobs) IN
       IF r.ok
       THEN /\ mpc' = "running"
            /\ jobstore' = r.value
            /\ pendingJobs' = <<>>
            /\ instances' = [id \in {r.value[k].id : k \in 1..Len(r.value)} |-> 0]
            /\ UNCHANGED <<exitCode, startupError>>
       ELSE /\ ExitOnError(r.error)
            /\ UNCHANGED <<jobstore, pendingJobs, instances>>
    /\ UNCHANGED <<env, loadIdx, lastRaw, accounts, regIdx, workers, runs,
                   skipped>>

\* main, lines 47-48: KeyboardInterrupt while start() blocks
Interrupt ==
    /\ mpc = "running"
    /\ mpc' = "exited"
    /\ exitCode' = 0
    /\ UNCHANGED <<env, startupError, loadIdx, lastRaw, accounts, regIdx,
                   pendingJobs, jobstore, instances, workers, runs, skipped>>

\* A plausible slip: a job added with no limit on its running instances
CanSubmitAlways(id) == TRUE

\* The executor accepts a run of the job unless max_instances are running
CanSubmit(id) == instances[id] < MaxInstances

IdleWorkers == {w \in 1..PoolSize : workers[w].pc = "idle"}

\* A job comes due and the executor starts send_email_task on a free
\* thread (the threads are interchangeable: the lowest free one is taken).
Fire(k) ==
    /\ mpc = "running"
    /\ k \in 1..Len(jobstore)
    /\ runs[jobstore[k].acct] < MaxRuns
    /\ CanSubmit(jobstore[k].id)
    /\ IdleWorkers # {}
    /\ LET w == CHOOSE v \in IdleWorkers : \A u \in IdleWorkers : v <= u IN
       workers' = [workers EXCEPT ![w] =
                      [IdleWorker EXCEPT !.pc = "generate",
                                         !.acct = jobstore[k].acct]]
    /\ instances' = [instances EXCEPT ![jobstore[k].id] = @ + 1]
    /\ UNCHANGED <<startupVars, runs, skipped>>

\* A job comes due while max_instances of it run: the run is skipped
SkipRun(k) ==
    /\ mpc = "running"
    /\ k \in 1..Len(jobstore)
    /\ ~CanSubmit(jobstore[k].id)
    /\ jobstore[k].id \notin skipped
    /\ skipped' = skipped \cup {jobstore[k].id}
    /\ UNCHANGED <<startupVars, instances, workers, runs>>

(***************************************************************************)
(* send_email_task (app/scheduler.py), one action per outside call         *)
(***************************************************************************)
\* lines 36-39: ai_generator.generate(...)
Generate(w, outcomes) ==
    /\ workers[w].pc = "generate"
    /\ \E api \in outcomes :
         LET gen == GenerateResult(api, accounts[workers[w].acct].subject_prefix)
         IN  workers' = [workers EXCEPT ![w] =
                            [@ EXCEPT !.genCalls = @ + 1,
                                      !.api = ApiSeen(api), !.gen = gen,
                                      !.exc = gen.exc,
                                      !.pc = AfterGenerate(gen)]]
    /\ UNCHANGED <<startupVars, instances, runs, skipped>>

\* lines 42-48: email_sender.send(...), which propagates the API's error
Send(w) ==
    /\ workers[w].pc = "send"
    /\ \E sendOk \in BOOLEAN :
         workers' = [workers EXCEPT ![w] =
                        [@ EXCEPT !.sendCalls = @ + 1,
                                  !.mail = MailParams(accounts[workers[w].acct],
                                                      workers[w].gen.content),
                                  !.sendOutcome = IF sendOk THEN "return" ELSE "raise",
                                  !.exc = IF sendOk THEN NoExc ELSE ResendError,
                                  !.pc = AfterSend(sendOk)]]
    /\ UNCHANGED <<startupVars, instances, runs, skipped>>

\* lines 53-57: tg_notifier.notify_success(...)
NotifySuccess(w) ==
    /\ workers[w].pc = "notify_success"
    /\ \E postOk \in BOOLEAN :
         LET n == NotifierSend(NotifierEnabled(env), postOk) IN
         workers' = [workers EXCEPT ![w] =
                        [@ EXCEPT !.nsCalls = @ + 1,
                                  !.nsSubject = workers[w].gen.content.subject,
                                  !.posts = @ + n.posts,
                                  !.postFailed = n.failed,
                                  !.exc = IF n.raised
                                          THEN Exc("HTTPError", "notification failed")
                                          ELSE @,
                                  !.pc = AfterNotifySuccess(n.raised)]]
    /\ UNCHANGED <<startupVars, instances, runs, skipped>>

\* lines 59-67: except Exception as e -> tg_notifier.notify_failure(...)
NotifyFailure(w) ==
    /\ workers[w].pc = "notify_failure"
    /\ \E postOk \in BOOLEAN :
         LET n == NotifierSend(NotifierEnabled(env), postOk) IN
         workers' = [workers EXCEPT ![w] =
                        [@ EXCEPT !.nfCalls = @ + 1,
                                  !.nfError = StrOfExc(workers[w].exc),
                                  !.posts = @ + n.posts,
                                  !.postFailed = n.failed,
                                  !.pc = AfterNotifyFailure(n.raised)]]
    /\ UNCHANGED <<startupVars, instances, runs, skipped>>

\* send_email_task has returned (or raised): the executor counts the
\* instance down and the thread is free again; the job stays in the store.
Release(w) ==
    /\ workers[w].pc \in {"returned", "raised"}
    /\ LET a == workers[w].acct IN
       /\ instances' = [instances EXCEPT ![JobId(accounts[a])] = @ - 1]
       /\ runs' = [runs EXCEPT ![a] = @ + 1]
    /\ workers' = [workers EXCEPT ![w] = IdleWorker]
    /\ UNCHANGED <<startupVars, skipped>>

\* The answers of the language model the scheduling model tries
FewOutcomes ==
    {ApiRaise(Exc("APIConnectionError", "Connection error.")),
     ApiText(<<"J">>, "obj_subject_body"), ApiText(<<"h">>, "string")}

Next ==
    \/ LoadBegin
    \/ LoadEntry(CompactEntries)
    \/ LoadFinish
    \/ RegisterJob
    \/ CreateReturn
    \/ SchedulerStart
    \/ Interrupt
    \/ \E k \in 1..MaxAccounts : Fire(k)
    \/ \E k \in 1..MaxAccounts : SkipRun(k)
    \/ \E w \in 1..PoolSize : Generate(w, FewOutcomes)
    \/ \E w \in 1..PoolSize : Send(w)
    \/ \E w \in 1..PoolSize : NotifySuccess(w)
    \/ \E w \in 1..PoolSize : NotifyFailure(w)
    \/ \E w \in 1..PoolSize : Release(w)

Spec == Init /\ [][Next]_vars

(***************************************************************************)
(* One account, every answer of the language model of at most MaxRespLen   *)
(* characters: the firings of send_email_task                              *)
(***************************************************************************)
TaskEntries ==
    RawEntries({<<"a">>}, {<<"f@x">>}, {<<"N">>}, {<<"t@y">>},
               {Cron5}, {<<"p">>}, {Absent, <<"P">>})

ResponseAlphabet == {" ", "\n", Fence, "h", "J"}

RichOutcomes == ApiOutcomes(TextsUpTo(ResponseAlphabet, MaxRespLen), JsonDocs)

InitTask ==
    \E e \in Environments({"list"}, {1}, {<<>>}, {<<>>}, {<<>>},
                          {<<"k">>}, {<<"k">>}, {<<>>, <<"t">>}, {<<"c">>}) :
        StartOfMain(e)

NextTask ==
    \/ LoadBegin
    \/ LoadEntry(TaskEntries)
    \/ LoadFinish
    \/ RegisterJob
    \/ CreateReturn
    \/ SchedulerStart
    \/ \E k \in 1..MaxAccounts : Fire(k)
    \/ \E w \in 1..PoolSize : Generate(w, RichOutcomes)
    \/ \E w \in 1..PoolSize : Send(w)
    \/ \E w \in 1..PoolSize : NotifySuccess(w)
    \/ \E w \in 1..PoolSize : NotifyFailure(w)
    \/ \E w \in 1..PoolSize : Release(w)

SpecTask == InitTask /\ [][NextTask]_vars

(***************************************************************************)
(* load_config over entries that vary every required key                   *)
(***************************************************************************)
InitConfig ==
    \E e \in Environments(JsonKinds, 0..MaxAccounts, {<<>>, <<"d.com">>},
                          {<<>>, <<"D">>}, {<<>>, <<"q">>},
                          {<<"k">>}, {<<"k">>}, {<<>>}, {<<>>}) :
        StartOfMain(e)

NextConfig ==
    \/ LoadBegin
    \/ LoadEntry(RichEntries)
    \/ LoadFinish

SpecConfig == InitConfig /\ [][NextConfig]_vars

(***************************************************************************)
(* Properties                                                              *)
(***************************************************************************)
Workers == 1..PoolSize

Finished(w) == workers[w].pc \in {"returned", "raised"}

\* C1: in a firing where generate raises, notify_failure is called exactly
\* once (none yet only while the call is still to come), send is never
\* called and notify_success is never called.
C1_GenerateFailureNotifiesOnce ==
    \A w \in Workers :
        workers[w].gen.kind = "raise" =>
            /\ workers[w].sendCalls = 0
            /\ workers[w].nsCalls = 0
            /\ workers[w].nfCalls = IF workers[w].pc = "notify_failure" THEN 0 ELSE 1
            /\ workers[w].pc \in {"notify_failure", "returned"}

\* C1 witness: a firing has ended after generate raised and notify_failure
\* was called
C1_Witness ==
    \E w \in Workers :
        /\ workers[w].pc = "returned"
        /\ workers[w].gen.kind = "raise"
        /\ workers[w].nfCalls = 1

\* The text json.loads is given: the answer stripped, and with every line
\* that starts with a fence removed when the stripped answer starts with one
FallbackBody(text) ==
    LET t == Strip(text) IN
    IF t # <<>> /\ t[1] = Fence
    THEN JoinLines(SelectSeq(SplitLines(t),
                             LAMBDA l : Strip(l) = <<>> \/ Strip(l)[1] # Fence))
    ELSE t

PrefixedDefault(w) ==
    accounts[workers[w].acct].subject_prefix \o DefaultSubject

C3_NoEmptyBody ==
    \A w \in Workers :
        /\ workers[w].gen.kind = "return" => workers[w].gen.content.body # <<>>
        /\ workers[w].sendCalls > 0 => workers[w].mail.body # <<>>

\* C6 as claimed: when the API call raises a transport error E, generate
\* raises that same E and notify_failure is given the text of E.
C6_TransportErrorPropagated ==
    \A w \in Workers :
        workers[w].api.kind = "raise" =>
            /\ workers[w].genCalls = 1
            /\ workers[w].gen.kind = "raise"
            /\ workers[w].gen.exc = workers[w].api.exc
            /\ workers[w].nfCalls > 0 =>
                   workers[w].nfError = workers[w].api.exc.msg

\* C10: a firing calls generate at most once and send at most once, and
\* ends with exactly one notification call: notify_success iff generate and
\* send both returned, otherwise notify_failure; notify_success is never
\* called before send has returned, and never both in one firing.
C10_OneNotificationPerFiring ==
    \A w \in Workers :
        /\ workers[w].genCalls <= 1
        /\ workers[w].sendCalls <= 1
        /\ workers[w].nsCalls + workers[w].nfCalls <= 1
        /\ workers[w].nsCalls = 1 => workers[w].sendOutcome = "return"
        /\ Finished(w) =>
               /\ workers[w].nsCalls + workers[w].nfCalls = 1
               /\ workers[w].nsCalls = 1 <=>
                      (workers[w].gen.kind = "return"
                       /\ workers[w].sendOutcome = "return")

\* C10 witness: a firing has ended in notify_failure after generate
\* returned and send raised
C10_Witness ==
    \E w \in Workers :
        /\ workers[w].pc = "returned"
        /\ workers[w].gen.kind = "return"
        /\ workers[w].sendOutcome = "raise"
        /\ workers[w].nfCalls = 1
        /\ workers[w].nsCalls = 0

\* The keys the claim calls required, in the order they are validated
C4_Required == <<"name", "from_email", "to_email", "cron", "ai_prompt">>

Blank(text) == \A i \in 1..Len(text) : text[i] \in Whitespace

\* The entry read last lacks key f: absent, or blank
C4_Lacks(f) == lastRaw[f] = Absent \/ Blank(lastRaw[f])

\* The entry read last lacks key f and no default of load_config fills it:
\* an absent name becomes account_<i>; an absent or empty from_email is
\* generated when DEFAULT_EMAIL_DOMAIN is set; an absent or empty ai_prompt
\* becomes DEFAULT_AI_PROMPT.
C4_LacksAfterDefaults(f) ==
    IF f = "name" THEN lastRaw[f] # Absent /\ Blank(lastRaw[f])
    ELSE IF f = "from_email"
    THEN C4_Lacks(f) /\ (lastRaw[f] \in {Absent, <<>>} => env.domain = <<>>)
    ELSE IF f = "ai_prompt"
    THEN C4_Lacks(f) /\ (lastRaw[f] \in {Absent, <<>>} => Blank(env.defaultPrompt))
    ELSE C4_Lacks(f)

C4_Names(f) == \E i \in 1..Len(startupError) : startupError[i] = f

C4_AccountsValid ==
    \A k \in 1..Len(accounts) :
        /\ \A j \in 1..Len(C4_Required) : ~Blank(accounts[k][C4_Required[j]])
        /\ Len(SplitFields(accounts[k].cron)) = 5

C4_EntryRead == loadIdx > 0 /\ lastRaw.isDict

\* C4 as claimed: an entry that lacks exactly one required key (absent, or
\* empty after trimming) and is valid otherwise makes load_config fail with
\* an error naming the key; zero accounts fail; a returned AppConfig holds
\* only valid accounts.
C4_Original ==
    /\ \A j \in 1..Len(C4_Required) :
         (C4_EntryRead /\ C4_Lacks(C4_Required[j])
          /\ \A o \in 1..Len(C4_Required) : o # j => ~C4_Lacks(C4_Required[o])
          /\ (C4_Required[j] # "cron" => Len(SplitFields(lastRaw.cron)) = 5))
         => (mpc = "exited" /\ exitCode = 1 /\ C4_Names(C4_Required[j]))
    /\ env.n = 0 => mpc \in {"load_config", "load_entries", "exited"}
    /\ mpc = "create_scheduler" => (accounts # <<>> /\ C4_AccountsValid)

\* C4 amended: an entry in which a required key is still empty after
\* trimming once load_config's defaults are applied makes load_config fail
\* with an error naming the first such key (in the order name, from_email,
\* to_email, cron, ai_prompt); zero accounts fail; a returned AppConfig
\* holds only accounts with every required field non-empty and a 5-field
\* cron.
C4_MissingFieldRejected ==
    /\ \A j \in 1..Len(C4_Required) :
         (C4_EntryRead /\ C4_LacksAfterDefaults(C4_Required[j])
          /\ \A o \in 1..(j - 1) : ~C4_LacksAfterDefaults(C4_Required[o]))
         => (mpc = "exited" /\ exitCode = 1 /\ C4_Names(C4_Required[j]))
    /\ env.n = 0 => mpc \in {"load_config", "load_entries", "exited"}
    /\ mpc = "create_scheduler" => (accounts # <<>> /\ C4_AccountsValid)

\* C4 witness: the second entry, with a defaulted name and a generated
\* from_email, was rejected for its blank to_email
C4_Witness ==
    /\ mpc = "exited"
    /\ loadIdx = 2
    /\ lastRaw.isDict
    /\ lastRaw.name = Absent
    /\ lastRaw.from_email = Absent
    /\ env.domain # <<>>
    /\ lastRaw.to_email = <<" ">>
    /\ C4_Names("to_email")

\* Not a 5-field cron expression of valid fields
C5_BadCron(cron) ==
    \/ Len(SplitFields(cron)) # 5
    \/ \E k \in 1..Len(SplitFields(cron)) : SplitFields(cron)[k] # <<"*">>

AllIdle == \A w \in Workers : workers[w].pc = "idle"

\* C5: once an account with a bad cron expression has been read, the
\* scheduler is never started and no job ever fires; the entry whose cron
\* has not 5 fields ends load_config, the account whose cron has an invalid
\* field ends create_scheduler as soon as its turn comes, accounts
\* registered before it included, and the process exits with status 1.
C5_NoPartialScheduling ==
    /\ (loadIdx > 0 /\ lastRaw.isDict /\ Len(SplitFields(lastRaw.cron)) # 5)
       => (mpc = "exited" /\ exitCode = 1)
    /\ \A k \in 1..Len(accounts) :
         C5_BadCron(accounts[k].cron) =>
            /\ mpc \in {"load_entries", "create_scheduler", "exited"}
            /\ regIdx >= k => mpc = "exited"
            /\ mpc = "exited" => exitCode = 1
            /\ jobstore = <<>>
            /\ AllIdle
            /\ \A a \in 1..MaxAccounts : runs[a] = 0
    /\ (mpc = "running" \/ ~AllIdle) =>
         \A k \in 1..Len(accounts) : ~C5_BadCron(accounts[k].cron)

\* C5 witness: the second account's cron has an invalid field; the process
\* has exited with status 1 with the first account's job added and never
\* started
C5_Witness ==
    /\ mpc = "exited"
    /\ exitCode = 1
    /\ Len(accounts) = 2
    /\ ~C5_BadCron(accounts[1].cron)
    /\ accounts[2].cron = Cron5Invalid
    /\ Len(pendingJobs) = 1
    /\ jobstore = <<>>

\* C7: no firing of send_email_task raises; a firing posts at most one
\* notification, and a failed post leaves the firing returned with the
\* email sent exactly when send had returned; while the scheduler runs
\* every account keeps its job, whose running-instance count is the number
\* of its firings in progress, so that its next due run is accepted.
C7_NothingPropagates ==
    /\ \A w \in Workers :
         /\ workers[w].pc # "raised"
         /\ workers[w].posts <= 1
         /\ workers[w].postFailed =>
              /\ workers[w].pc = "returned"
              /\ workers[w].posts = 1
              /\ workers[w].nsCalls = 1 <=> workers[w].sendOutcome = "return"
              /\ workers[w].nfCalls = 1 <=> workers[w].sendOutcome # "return"
    /\ mpc = "running" =>
         \A a \in 1..Len(accounts) :
            /\ \E k \in 1..Len(jobstore) :
                 jobstore[k].acct = a /\ jobstore[k].id = JobId(accounts[a])
            /\ instances[JobId(accounts[a])] =
                 Cardinality({w \in Workers : workers[w].acct = a})

\* C7 witness: an account whose earlier firing has ended is in a later
\* firing, which has returned after generate raised and the notification
\* post failed
C7_Witness ==
    \E w \in Workers :
        /\ workers[w].pc = "returned"
        /\ runs[workers[w].acct] >= 1
        /\ workers[w].gen.kind = "raise"
        /\ workers[w].postFailed

\* The jobs the scheduler holds: added before start(), stored after it
C8_Jobs == IF mpc = "start" THEN pendingJobs ELSE jobstore

\* C8 as claimed: once the scheduler is built there is exactly one job per
\* account, with id "sendmail_" + name, no two jobs share an id, and two
\* accounts of the same name never reach the running scheduler.
C8_UniqueJobPerAccount ==
    mpc \in {"start", "running"} =>
        /\ Len(C8_Jobs) = Len(accounts)
        /\ \A k \in 1..Len(C8_Jobs) :
             C8_Jobs[k].id = <<"sendmail_">> \o accounts[k].name
        /\ \A i, j \in 1..Len(C8_Jobs) :
             i # j => C8_Jobs[i].id # C8_Jobs[j].id
        /\ mpc = "running" =>
             \A i, j \in 1..Len(accounts) :
                i # j => accounts[i].name # accounts[j].name

\* C9: no two firings of the same account are in progress at once.
C9_NoOverlapSameAccount ==
    \A v, w \in Workers :
        (v # w /\ workers[v].pc # "idle" /\ workers[w].pc # "idle")
            => workers[v].acct # workers[w].acct

\* C9 witness: firings of two accounts are in progress at once, and a due
\* run of a job was skipped because its previous firing still ran
C9_Witness ==
    /\ \E v, w \in Workers :
         /\ workers[v].pc # "idle"
         /\ workers[w].pc # "idle"
         /\ workers[v].acct # workers[w].acct
    /\ skipped # {}

=============================================================================
